---- MODULE Spec2Model ----
(***************************************************************************)
(* Model of src/visualization/viz.py: the loaders of ROC-AUC result files, *)
(* the permutation test of Ojala & Garriga and the annotation logic of the *)
(* violin plot.                                                            *)
(*                                                                         *)
(* AUC values are written in hundredths (0.51 is 51); a quotient of two   *)
(* integers (a mean, a p-value) is the fraction [num, den] in lowest       *)
(* terms, so that two quotients are equal exactly when the records are.    *)
(* Floating-point rounding of sums is not modelled.                        *)
(***************************************************************************)
EXTENDS Integers, Sequences, FiniteSets

VARIABLES
    pc,               \* "start" before the call, "done" after it
    raised,           \* the exception the call ended with, or NoException
    permuted_aucs,    \* argument: the table of permuted mean AUCs
    unpermuted_aucs,  \* argument: method -> diagnosis -> true mean AUC
    p_values,         \* what permutation_test returned
    methods_to_plot,  \* argument of auc_violinplot
    alpha,            \* argument of auc_violinplot: the significance level
    plot,             \* what auc_violinplot has drawn
    results_dir,      \* the directory tree under RESULTS_DIR, in listing order
    methods,          \* argument of the loaders
    called,           \* the loader that was called
    loaded            \* what the loader returned

vars == <<pc, raised, permuted_aucs, unpermuted_aucs, p_values,
          methods_to_plot, alpha, plot, results_dir, methods, called, loaded>>

(***************************************************************************)
(* Bounds and input universes                                              *)
(***************************************************************************)
MaxRows == 3
MaxFixedRows == 5
MaxPlotRows == 2
MaxPlotMethods == 3
MaxLeaves == 2

\* The row counts load_test_auc_data asserts.
UnpermutedRowCount == 150
PermutedRowCount == 5

Methods == {"logistic_regression_ovr", "xgboost_cce"}
Diagnoses == {"Depression", "Bipolar"}
PermutedAUCs == {49, 50, 51}
TrueAUCs == {50, 51}

NoException == "none"
KeyError == "KeyError"
ValueError == "ValueError"
AssertionError == "AssertionError"
EmptyDict == <<>>

(***************************************************************************)
(* Arithmetic helpers                                                      *)
(***************************************************************************)
RECURSIVE GCD(_, _)
GCD(a, b) == IF b = 0 THEN a ELSE GCD(b, a % b)

\* Python's true division a / b of two non-negative integers, b > 0.
TrueDiv(a, b) == LET g == GCD(a, b) IN [num |-> a \div g, den |-> b \div g]

(***************************************************************************)
(* The pandas operations permutation_test uses                             *)
(***************************************************************************)
Range(s) == {s[i] : i \in DOMAIN s}

\* df[c]: one column of a table (a sequence of rows).
Column(df, c) == [i \in DOMAIN df |-> df[i][c]]

\* Series.unique(): the distinct values in order of first appearance.
RECURSIVE Unique(_)
Unique(s) ==
    IF s = <<>> THEN <<>>
    ELSE LET front == Unique(SubSeq(s, 1, Len(s) - 1))
             last == s[Len(s)]
         IN IF last \in Range(front) THEN front ELSE Append(front, last)

\* Mask without the Diagnosis condition.
MaskMethodOnly(df, method, diagnosis) ==
    [i \in DOMAIN df |-> df[i]["Method"] = method]

\* (permuted_aucs['Method'] == method) & (permuted_aucs['Diagnosis'] == diagnosis)
Mask(df, method, diagnosis) ==
    [i \in DOMAIN df |-> df[i]["Method"] = method /\ df[i]["Diagnosis"] = diagnosis]

\* df.loc[mask, c]: column c of the rows the mask selects, in table order.
RECURSIVE Loc(_, _, _)
Loc(df, mask, c) ==
    IF df = <<>> THEN <<>>
    ELSE LET n == Len(df)
             front == Loc(SubSeq(df, 1, n - 1), SubSeq(mask, 1, n - 1), c)
         IN IF mask[n] THEN Append(front, df[n][c]) ELSE front

\* GeqSeries with > in place of >=.
GtSeries(series, u) == [i \in DOMAIN series |-> series[i] > u]

\* GeqSeries with <= in place of >=.
LeqSeries(series, u) == [i \in DOMAIN series |-> series[i] <= u]

\* permuted >= u, element-wise.
GeqSeries(series, u) == [i \in DOMAIN series |-> series[i] >= u]

\* SumBool counting the False entries.
RECURSIVE SumBoolNegated(_)
SumBoolNegated(bs) ==
    IF bs = <<>> THEN 0
    ELSE SumBoolNegated(SubSeq(bs, 1, Len(bs) - 1)) + (IF bs[Len(bs)] THEN 0 ELSE 1)

\* sum(...) of a boolean series: the number of True entries.
RECURSIVE SumBool(_)
SumBool(bs) ==
    IF bs = <<>> THEN 0
    ELSE SumBool(SubSeq(bs, 1, Len(bs) - 1)) + (IF bs[Len(bs)] THEN 1 ELSE 0)

\* PValue without the + 1 of the numerator.
PValueNoPlusOne(permuted, u) == TrueDiv(SumBool(GeqSeries(permuted, u)), Len(permuted) + 1)

\* (sum(permuted >= u) + 1) / (len(permuted) + 1)
PValue(permuted, u) == TrueDiv(SumBool(GeqSeries(permuted, u)) + 1, Len(permuted) + 1)

\* permutation_test(permuted_aucs, unpermuted_aucs): the dict of dicts of
\* p-values, or KeyError when unpermuted_aucs lacks a pair the loops visit.
permutation_test(pa, ua) ==
    LET ms == Range(Unique(Column(pa, "Method")))
        ds == Range(Unique(Column(pa, "Diagnosis")))
    IN IF \E m \in ms, d \in ds : m \notin DOMAIN ua \/ d \notin DOMAIN ua[m]
       THEN [raised |-> KeyError, value |-> EmptyDict]
       ELSE [raised |-> NoException,
             value |-> [m \in ms |-> [d \in ds |->
                PValue(Loc(pa, Mask(pa, m, d), "mean_auc"), ua[m][d])]]]

(***************************************************************************)
(* auc_violinplot                                                          *)
(***************************************************************************)
\* new_labels, and the legend label f'Permuted ({short})' of each short name.
new_labels ==
    [logistic_regression_ovr |-> "LRC",
     logistic_regression_cce |-> "LR CCE",
     xgboost_cce |-> "GBM CCE"]
PermutedLabel ==
    [m \in DOMAIN new_labels |->
        CASE new_labels[m] = "LRC" -> "Permuted (LRC)"
          [] new_labels[m] = "LR CCE" -> "Permuted (LR CCE)"
          [] new_labels[m] = "GBM CCE" -> "Permuted (GBM CCE)"]

Bold1 == "\\pmb{{"
Bold2 == "}}"

\* a <= b for two fractions.
FracLeq(a, b) == a.num * b.den <= b.num * a.den

\* mark_significance(p_val): the markup (str1, str2) around a p-value.
mark_significance(p_val, a) ==
    IF FracLeq(p_val, a) THEN <<Bold1, Bold2>> ELSE <<"", "">>

\* f'{p:.3f}': the fraction rounded to thousandths, ties to even.
Format3f(p) ==
    LET q == (1000 * p.num) \div p.den
        r == (1000 * p.num) % p.den
    IN IF 2 * r > p.den \/ (2 * r = p.den /\ q % 2 = 1) THEN q + 1 ELSE q

\* The text of one annotation, f'$p = {p:.3f}$': str1 and str2 of
\* mark_significance are not part of it.
AnnotationText(p) == [str1 |-> "", value |-> Format3f(p), str2 |-> ""]

\* permuted_aucs[permuted_aucs['Method'].isin(methods_to_plot)]: a copy.
RECURSIVE IsIn(_, _)
IsIn(df, ms) ==
    IF df = <<>> THEN <<>>
    ELSE LET front == IsIn(SubSeq(df, 1, Len(df) - 1), ms)
             last == df[Len(df)]
         IN IF last["Method"] \in Range(ms) THEN Append(front, last) ELSE front

\* The loop over new_labels that rewrites the Method column of the copy.
Relabel(df) ==
    [i \in DOMAIN df |->
        IF df[i]["Method"] \in DOMAIN new_labels
        THEN [df[i] EXCEPT !["Method"] = PermutedLabel[df[i]["Method"]]]
        ELSE df[i]]

\* The (i, j) pairs in the order the two nested loops over the diagnoses and
\* methods_to_plot visit them, numbered from 1.
LoopI(k, m2p) == (k - 1) \div Len(m2p)
LoopJ(k, m2p) == (k - 1) % Len(m2p)

\* The number of iterations of the nested loops that complete before the
\* first one whose lookup fails; missing[k] tells whether that of iteration k
\* does.
Completed(missing) ==
    IF \E k \in DOMAIN missing : missing[k]
    THEN (CHOOSE k \in DOMAIN missing : missing[k] /\ \A l \in 1..(k - 1) : ~missing[l]) - 1
    ELSE Len(missing)

NothingDrawn ==
    [figure |-> FALSE, data |-> <<>>, hue_order |-> <<>>, scatter |-> <<>>,
     tested |-> FALSE, annotations |-> <<>>]

\* WrongLength accepting every list of at least two methods.
WrongLengthTooFew(m2p) == Len(m2p) < 2

\* The check of auc_violinplot on its argument methods_to_plot.
WrongLength(m2p) == Len(m2p) # 2

\* auc_violinplot(permuted_aucs, unpermuted_aucs, methods_to_plot, alpha=a):
\* the exception it ends with, its arguments after the call, the p-values it
\* computed and what it has drawn.
auc_violinplot(pa, ua, m2p, a) ==
    LET data == Relabel(IsIn(pa, m2p))
        diagnoses == Unique(Column(pa, "Diagnosis"))
        count == Len(diagnoses) * Len(m2p)
        method(k) == m2p[LoopJ(k, m2p) + 1]
        diagnosis(k) == diagnoses[LoopI(k, m2p) + 1]
        no_true_auc == [k \in 1..count |->
                          method(k) \notin DOMAIN ua
                          \/ diagnosis(k) \notin DOMAIN ua[method(k)]]
        scattered == Completed(no_true_auc)
        scatter == [k \in 1..scattered |->
                      [x |-> ua[method(k)][diagnosis(k)], i |-> LoopI(k, m2p),
                       j |-> LoopJ(k, m2p),
                       label |-> IF LoopI(k, m2p) = 0 THEN new_labels[method(k)] ELSE ""]]
        test == permutation_test(pa, ua)
        no_p_value == [k \in 1..count |-> method(k) \notin DOMAIN test.value]
        annotated == Completed(no_p_value)
        annotations == [k \in 1..annotated |->
                          [text |-> AnnotationText(test.value[method(k)][diagnosis(k)]),
                           method |-> method(k), diagnosis |-> diagnosis(k),
                           i |-> LoopI(k, m2p), j |-> LoopJ(k, m2p)]]
        drawn == [figure |-> TRUE, data |-> data, hue_order |-> <<>>, scatter |-> <<>>,
                  tested |-> FALSE, annotations |-> <<>>]
    IN IF WrongLength(m2p)
       THEN [raised |-> ValueError, permuted_aucs |-> pa, p_values |-> EmptyDict,
             plot |-> NothingDrawn]
       ELSE IF \E j \in DOMAIN m2p : m2p[j] \notin DOMAIN new_labels
       THEN [raised |-> KeyError, permuted_aucs |-> pa, p_values |-> EmptyDict,
             plot |-> drawn]
       ELSE LET violins ==
                  [drawn EXCEPT !.hue_order = [j \in DOMAIN m2p |-> PermutedLabel[m2p[j]]],
                                !.scatter = scatter]
            IN IF scattered < count
               THEN [raised |-> KeyError, permuted_aucs |-> pa, p_values |-> EmptyDict,
                     plot |-> violins]
               ELSE IF test.raised # NoException
               THEN [raised |-> test.raised, permuted_aucs |-> pa, p_values |-> EmptyDict,
                     plot |-> [violins EXCEPT !.tested = TRUE]]
               ELSE [raised |-> IF annotated < count THEN KeyError ELSE NoException,
                     permuted_aucs |-> pa, p_values |-> test.value,
                     plot |-> [violins EXCEPT !.tested = TRUE,
                                              !.annotations = annotations]]

NoPlotCall ==
    /\ methods_to_plot = <<>>
    /\ alpha = [num |-> 1, den |-> 20]
    /\ plot = NothingDrawn

(***************************************************************************)
(* Result files and their discovery                                        *)
(*                                                                         *)
(* A file or directory name is the sequence of its parts between           *)
(* underscores: 'run_unpermuted_unadjusted' is <<"run", "unpermuted",      *)
(* "unadjusted">>.  A CSV file is [nrows, columns], columns being the      *)
(* sequence of its [name, values] in file order.  results_dir is the       *)
(* sequence os.listdir(RESULTS_DIR) yields, each entry [name, subs] with   *)
(* subs the listing of that directory, each [name, files] with files the   *)
(* CSV of every method for the one segmentation.                           *)
(***************************************************************************)
StartsWith(name, prefix) ==
    Len(name) >= Len(prefix) /\ SubSeq(name, 1, Len(prefix)) = prefix
EndsWith(name, suffix) ==
    Len(name) >= Len(suffix)
    /\ SubSeq(name, Len(name) - Len(suffix) + 1, Len(name)) = suffix

is_adjusted(afile) == ~EndsWith(afile, <<"unadjusted">>)
is_unadjusted(afile) == EndsWith(afile, <<"unadjusted">>)
is_permuted(afile) == StartsWith(afile, <<"run", "permuted">>)
is_unpermuted(afile) == StartsWith(afile, <<"run", "unpermuted">>)

\* all(f(file) for f in filters), for the filters the two flags select.
filters(afile, permuted, adjusted) ==
    /\ IF permuted THEN is_permuted(afile) ELSE is_unpermuted(afile)
    /\ IF adjusted THEN is_adjusted(afile) ELSE is_unadjusted(afile)

subfolder_prefix(permuted) == IF permuted THEN <<"permuted">> ELSE <<"unpermuted">>

\* The innermost loop: one (method, file) per method, in the order of methods.
YieldMethods(sub, ms) ==
    [j \in DOMAIN ms |-> [method |-> ms[j], file |-> sub.files[ms[j]]]]

RECURSIVE YieldSubFolders(_, _, _)
YieldSubFolders(subs, ms, permuted) ==
    IF subs = <<>> THEN <<>>
    ELSE (IF StartsWith(Head(subs).name, subfolder_prefix(permuted))
          THEN YieldMethods(Head(subs), ms) ELSE <<>>)
         \o YieldSubFolders(Tail(subs), ms, permuted)

\* results_file_iter(methods, segmentation, permuted, adjusted): the sequence
\* of (method, file) it yields.
RECURSIVE results_file_iter(_, _, _, _)
results_file_iter(dir, ms, permuted, adjusted) ==
    IF dir = <<>> THEN <<>>
    ELSE (IF filters(Head(dir).name, permuted, adjusted)
          THEN YieldSubFolders(Head(dir).subs, ms, permuted) ELSE <<>>)
         \o results_file_iter(Tail(dir), ms, permuted, adjusted)

\* read_results_csv(filename): the table without its 'filename' and 'Method'
\* columns.
RECURSIVE DropColumns(_, _)
DropColumns(columns, names) ==
    IF columns = <<>> THEN <<>>
    ELSE (IF Head(columns).name \in names THEN <<>> ELSE <<Head(columns)>>)
         \o DropColumns(Tail(columns), names)
read_results_csv(file) ==
    [nrows |-> file.nrows, columns |-> DropColumns(file.columns, {"filename", "Method"})]

(***************************************************************************)
(* The loaders                                                             *)
(***************************************************************************)
\* The sum of values[lo .. hi], by halves.
RECURSIVE SumRange(_, _, _)
SumRange(values, lo, hi) ==
    IF lo > hi THEN 0
    ELSE IF lo = hi THEN values[lo]
    ELSE IF lo + 1 = hi THEN values[lo] + values[hi]
    ELSE IF lo + 2 = hi THEN values[lo] + values[lo + 1] + values[hi]
    ELSE IF lo + 3 = hi THEN values[lo] + values[lo + 1] + values[lo + 2] + values[hi]
    ELSE LET mid == (lo + hi) \div 2
         IN SumRange(values, lo, mid) + SumRange(values, mid + 1, hi)

\* np.mean(values) and Series.mean(): the sum over the count.
Mean(values) == TrueDiv(SumRange(values, 1, Len(values)), Len(values))

ColumnNames(df) == {df.columns[c].name : c \in DOMAIN df.columns}
ColumnValues(df, name) ==
    df.columns[CHOOSE c \in DOMAIN df.columns : df.columns[c].name = name].values

\* The loop over the columns of one file with a plain assignment: the list
\* of a diagnosis is replaced by the column of the file.
ReplaceColumns(aucs, df) ==
    [d \in DOMAIN aucs \cup ColumnNames(df) |->
        IF d \in ColumnNames(df) THEN ColumnValues(df, d) ELSE aucs[d]]

\* The loop over the columns of one file: the list of each diagnosis of the
\* file is created if absent and extended by the column.
ExtendColumns(aucs, df) ==
    [d \in DOMAIN aucs \cup ColumnNames(df) |->
        (IF d \in DOMAIN aucs THEN aucs[d] ELSE <<>>)
        \o (IF d \in ColumnNames(df) THEN ColumnValues(df, d) ELSE <<>>)]

\* The assertion on a permuted file, left out.
PermutedShapeUnchecked(df) == TRUE

\* assert df.shape[0] == 150 and assert df.shape[0] == 5
UnpermutedShapeOk(df) == df.nrows = UnpermutedRowCount
PermutedShapeOk(df) == df.nrows = PermutedRowCount

\* The first loop of load_test_auc_data over the files yielded.
RECURSIVE LoadUnpermuted(_, _)
LoadUnpermuted(yielded, aucs) ==
    IF yielded = <<>> THEN [raised |-> NoException, aucs |-> aucs]
    ELSE LET method == Head(yielded).method
             df == read_results_csv(Head(yielded).file)
         IN IF ~UnpermutedShapeOk(df)
            THEN [raised |-> AssertionError, aucs |-> aucs]
            ELSE LoadUnpermuted(Tail(yielded),
                                [aucs EXCEPT ![method] = ExtendColumns(@, df)])

\* The rows one permuted file appends: the mean of each of its columns.
FileMeans(method, df) ==
    [c \in DOMAIN df.columns |->
        [Method |-> method, Diagnosis |-> df.columns[c].name,
         mean_auc |-> Mean(df.columns[c].values)]]

\* The second loop of load_test_auc_data.
RECURSIVE LoadPermuted(_, _)
LoadPermuted(yielded, table) ==
    IF yielded = <<>> THEN [raised |-> NoException, table |-> table]
    ELSE LET method == Head(yielded).method
             df == read_results_csv(Head(yielded).file)
         IN IF ~PermutedShapeOk(df)
            THEN [raised |-> AssertionError, table |-> table]
            ELSE LoadPermuted(Tail(yielded), table \o FileMeans(method, df))

\* The loop of load_test_auc_unadjusted_data: no assertion on the shape.
RECURSIVE LoadUnadjusted(_, _)
LoadUnadjusted(yielded, aucs) ==
    IF yielded = <<>> THEN aucs
    ELSE LET method == Head(yielded).method
             df == read_results_csv(Head(yielded).file)
         IN LoadUnadjusted(Tail(yielded), [aucs EXCEPT ![method] = ExtendColumns(@, df)])

\* The final loops: the mean of every list.
MeanAucs(aucs) == [m \in DOMAIN aucs |-> [d \in DOMAIN aucs[m] |-> Mean(aucs[m][d])]]

NothingLoaded == [mean_aucs |-> EmptyDict, permuted_aucs |-> <<>>, aucs |-> EmptyDict]

\* load_test_auc_data(methods): (mean_unpermuted_aucs, permuted_aucs,
\* unpermuted_aucs), or the exception it ends with.
load_test_auc_data(dir, ms) ==
    LET unpermuted ==
            LoadUnpermuted(results_file_iter(dir, ms, FALSE, TRUE),
                           [m \in Range(ms) |-> EmptyDict])
        permuted == LoadPermuted(results_file_iter(dir, ms, TRUE, TRUE), <<>>)
    IN IF unpermuted.raised # NoException
       THEN [raised |-> unpermuted.raised, value |-> NothingLoaded]
       ELSE IF permuted.raised # NoException
       THEN [raised |-> permuted.raised, value |-> NothingLoaded]
       ELSE [raised |-> NoException,
             value |-> [mean_aucs |-> MeanAucs(unpermuted.aucs),
                        permuted_aucs |-> permuted.table,
                        aucs |-> unpermuted.aucs]]

\* load_test_auc_unadjusted_data(methods): (mean_unperm_unadj_aucs,
\* unperm_unadj_aucs).
load_test_auc_unadjusted_data(dir, ms) ==
    LET aucs == LoadUnadjusted(results_file_iter(dir, ms, FALSE, FALSE),
                               [m \in Range(ms) |-> EmptyDict])
    IN [raised |-> NoException,
        value |-> [mean_aucs |-> MeanAucs(aucs), permuted_aucs |-> <<>>, aucs |-> aucs]]

NoLoaderCall ==
    /\ results_dir = <<>>
    /\ methods = <<>>
    /\ called = "none"
    /\ loaded = NothingLoaded

(***************************************************************************)
(* Specification SpecTest: permutation_test on arbitrary bounded inputs    *)
(***************************************************************************)
Rows == [Method : Methods, Diagnosis : Diagnoses, mean_auc : PermutedAUCs]
Tables == UNION {[1..n -> Rows] : n \in 0..MaxRows}

\* Dicts of true mean AUCs: those whose value depends on the method alone or
\* on the diagnosis alone, and two that lack a key.
UnpermutedDicts ==
    {[m \in Methods |-> [d \in Diagnoses |-> f[m]]] : f \in [Methods -> TrueAUCs]}
    \cup {[m \in Methods |-> [d \in Diagnoses |-> g[d]]] : g \in [Diagnoses -> TrueAUCs]}
    \cup {[m \in {"xgboost_cce"} |-> [d \in Diagnoses |-> 50]],
          [m \in Methods |-> [d \in {"Depression"} |-> 50]]}

InitTest ==
    /\ pc = "start"
    /\ raised = NoException
    /\ permuted_aucs \in Tables
    /\ unpermuted_aucs \in UnpermutedDicts
    /\ p_values = EmptyDict
    /\ NoPlotCall
    /\ NoLoaderCall

CallPermutationTest ==
    /\ pc = "start"
    /\ LET r == permutation_test(permuted_aucs, unpermuted_aucs)
       IN /\ raised' = r.raised
          /\ p_values' = r.value
    /\ pc' = "done"
    /\ UNCHANGED <<permuted_aucs, unpermuted_aucs, methods_to_plot, alpha, plot,
                   results_dir, methods, called, loaded>>

NextTest == CallPermutationTest

SpecTest == InitTest /\ [][NextTest]_vars

(***************************************************************************)
(* Specification SpecFixed: permutation_test on samples of one pair with   *)
(* values 0.50 .. 0.55                                                     *)
(***************************************************************************)
FixedMethod == "logistic_regression_ovr"
FixedDiagnosis == "Depression"
FixedAUCs == 50..55
FixedTrueAUCs == {50, 53, 56}
FixedRows == [Method : {FixedMethod}, Diagnosis : {FixedDiagnosis}, mean_auc : FixedAUCs]
FixedTables == UNION {[1..n -> FixedRows] : n \in 0..MaxFixedRows}

InitFixed ==
    /\ pc = "start"
    /\ raised = NoException
    /\ permuted_aucs \in FixedTables
    /\ unpermuted_aucs \in
          {[m \in {FixedMethod} |-> [d \in {FixedDiagnosis} |-> u]] : u \in FixedTrueAUCs}
    /\ p_values = EmptyDict
    /\ NoPlotCall
    /\ NoLoaderCall

SpecFixed == InitFixed /\ [][NextTest]_vars

(***************************************************************************)
(* Specification SpecPlot: auc_violinplot on bounded inputs                *)
(***************************************************************************)
PlotMethods == Methods \cup {"svm"}
PlotAUCs == {49, 51}
PlotRows == [Method : Methods, Diagnosis : Diagnoses, mean_auc : PlotAUCs]
PlotTables == UNION {[1..n -> PlotRows] : n \in 0..MaxPlotRows}
PlotDicts ==
    {[m \in Methods |-> [d \in Diagnoses |-> 50]],
     [m \in Methods |-> [d \in {"Depression"} |-> 50]]}
\* The default 0.05, and 0.5.
Alphas == {[num |-> 1, den |-> 20], [num |-> 1, den |-> 2]}

InitPlot ==
    /\ pc = "start"
    /\ raised = NoException
    /\ permuted_aucs \in PlotTables
    /\ unpermuted_aucs \in PlotDicts
    /\ p_values = EmptyDict
    /\ methods_to_plot \in UNION {[1..n -> PlotMethods] : n \in 0..MaxPlotMethods}
    /\ alpha \in Alphas
    /\ plot = NothingDrawn
    /\ NoLoaderCall

CallAucViolinplot ==
    /\ pc = "start"
    /\ LET r == auc_violinplot(permuted_aucs, unpermuted_aucs, methods_to_plot, alpha)
       IN /\ raised' = r.raised
          /\ permuted_aucs' = r.permuted_aucs
          /\ p_values' = r.p_values
          /\ plot' = r.plot
    /\ pc' = "done"
    /\ UNCHANGED <<unpermuted_aucs, methods_to_plot, alpha,
                   results_dir, methods, called, loaded>>

NextPlot == CallAucViolinplot

SpecPlot == InitPlot /\ [][NextPlot]_vars

(***************************************************************************)
(* Specification SpecLoad: the two loaders on bounded directory trees      *)
(***************************************************************************)
Constant(n, v) == [i \in 1..n |-> v]
Ramp(n, v) == [i \in 1..n |-> v + (i % 3)]

\* Four result files: two of 150 rows and two of 5 rows, the second of each
\* without the Bipolar column; one still has its Method column.
CsvA ==
    [nrows |-> 150,
     columns |-> <<[name |-> "Depression", values |-> Constant(150, 50)],
                   [name |-> "Bipolar", values |-> Ramp(150, 51)]>>]
CsvB ==
    [nrows |-> 150,
     columns |-> <<[name |-> "Depression", values |-> Ramp(150, 52)]>>]
CsvC ==
    [nrows |-> 5,
     columns |-> <<[name |-> "Depression", values |-> <<49, 50, 51, 52, 54>>],
                   [name |-> "Bipolar", values |-> Constant(5, 50)],
                   [name |-> "Method", values |-> Constant(5, 0)]>>]
CsvD ==
    [nrows |-> 5,
     columns |-> <<[name |-> "Depression", values |-> <<48, 50, 50, 50, 50>>]>>]

Method1 == "logistic_regression_ovr"
Method2 == "xgboost_cce"
LeafFiles ==
    {[m \in Methods |-> IF m = Method1 THEN CsvA ELSE CsvB],
     [m \in Methods |-> IF m = Method1 THEN CsvB ELSE CsvA],
     [m \in Methods |-> IF m = Method1 THEN CsvC ELSE CsvD],
     [m \in Methods |-> IF m = Method1 THEN CsvD ELSE CsvC]}

\* The directories holding result files, as (run, sub folder): two sub
\* folders in each run a loader reads, a sub folder of the other kind in each
\* adjusted run, and a permuted unadjusted run, which no loader reads.
LeafNames ==
    {<<r, s>> : r \in {<<"run", "unpermuted">>, <<"run", "unpermuted", "unadjusted">>},
                s \in {<<"unpermuted", "0">>, <<"unpermuted", "1">>}}
    \cup {<<r, s>> : r \in {<<"run", "permuted">>},
                     s \in {<<"permuted", "0">>, <<"permuted", "1">>, <<"unpermuted", "0">>}}
    \cup {<<<<"run", "unpermuted">>, <<"permuted", "0">>>>,
          <<<<"run", "permuted", "unadjusted">>, <<"permuted", "0">>>>}

\* A walk of the tree: its leaf directories in listing order.  No directory
\* lists a name twice, and the sub folders of one run are listed together.
Leaves ==
    {[file |-> n[1], sub_folder |-> n[2], files |-> f] : n \in LeafNames, f \in LeafFiles}
IsWalk(w) ==
    /\ \A i, j \in DOMAIN w :
        (i # j) => (w[i].file # w[j].file \/ w[i].sub_folder # w[j].sub_folder)
    /\ \A i, j, k \in DOMAIN w :
        (i < j /\ j < k /\ w[i].file = w[k].file) => w[j].file = w[i].file
Walks == {w \in UNION {[1..n -> Leaves] : n \in 0..MaxLeaves} : IsWalk(w)}

\* The lists of methods the loaders are called with.
MethodLists == {<<Method1, Method2>>, <<Method2>>}

\* The tree a walk visits.
RECURSIVE Tree(_)
Tree(w) ==
    IF w = <<>> THEN <<>>
    ELSE LET front == Tree(SubSeq(w, 1, Len(w) - 1))
             leaf == w[Len(w)]
             sub == [name |-> leaf.sub_folder, files |-> leaf.files]
         IN IF front # <<>> /\ front[Len(front)].name = leaf.file
            THEN [front EXCEPT ![Len(front)].subs = Append(@, sub)]
            ELSE Append(front, [name |-> leaf.file, subs |-> <<sub>>])

InitLoad ==
    /\ pc = "start"
    /\ raised = NoException
    /\ permuted_aucs = <<>>
    /\ unpermuted_aucs = EmptyDict
    /\ p_values = EmptyDict
    /\ NoPlotCall
    /\ results_dir \in {Tree(w) : w \in Walks}
    /\ methods \in MethodLists
    /\ called = "none"
    /\ loaded = NothingLoaded

CallLoadTestAucData ==
    /\ pc = "start"
    /\ LET r == load_test_auc_data(results_dir, methods)
       IN /\ raised' = r.raised
          /\ loaded' = r.value
    /\ called' = "load_test_auc_data"
    /\ pc' = "done"
    /\ UNCHANGED <<permuted_aucs, unpermuted_aucs, p_values, methods_to_plot, alpha,
                   plot, results_dir, methods>>

CallLoadTestAucUnadjustedData ==
    /\ pc = "start"
    /\ LET r == load_test_auc_unadjusted_data(results_dir, methods)
       IN /\ raised' = r.raised
          /\ loaded' = r.value
    /\ called' = "load_test_auc_unadjusted_data"
    /\ pc' = "done"
    /\ UNCHANGED <<permuted_aucs, unpermuted_aucs, p_values, methods_to_plot, alpha,
                   plot, results_dir, methods>>

NextLoad == CallLoadTestAucData \/ CallLoadTestAucUnadjustedData

SpecLoad == InitLoad /\ [][NextLoad]_vars

(***************************************************************************)
(* Claims about permutation_test                                           *)
(***************************************************************************)
Returned == pc = "done" /\ raised = NoException

\* The rows of permuted_aucs of one (method, diagnosis) pair, as row numbers.
PairRows(m, d) ==
    {i \in DOMAIN permuted_aucs :
        permuted_aucs[i].Method = m /\ permuted_aucs[i].Diagnosis = d}
PairRowsGeq(m, d) ==
    {i \in PairRows(m, d) : permuted_aucs[i].mean_auc >= unpermuted_aucs[m][d]}
MethodsOccurring == {permuted_aucs[i].Method : i \in DOMAIN permuted_aucs}
DiagnosesOccurring == {permuted_aucs[i].Diagnosis : i \in DOMAIN permuted_aucs}

\* C1: for every method m and diagnosis d occurring in permuted_aucs,
\* p_values[m][d] = (k + 1) / (n + 1), with n the number of rows of the pair
\* (m, d) and k the number of those rows whose mean_auc is >= the true mean
\* AUC of the pair; no other row contributes.
C1_Formula ==
    Returned =>
        /\ DOMAIN p_values = MethodsOccurring
        /\ \A m \in MethodsOccurring :
            /\ DOMAIN p_values[m] = DiagnosesOccurring
            /\ \A d \in DiagnosesOccurring :
                LET n == Cardinality(PairRows(m, d))
                    k == Cardinality(PairRowsGeq(m, d))
                IN p_values[m][d].num * (n + 1) = (k + 1) * p_values[m][d].den

\* A pair with one row equal to the true AUC, beside a lower row of the other
\* method and a lower row of the other diagnosis: p = (1 + 1) / (1 + 1).
C1_Witness ==
    /\ Returned
    /\ \E m \in MethodsOccurring, d \in DiagnosesOccurring :
        /\ \E i \in PairRows(m, d) : permuted_aucs[i].mean_auc = unpermuted_aucs[m][d]
        /\ Cardinality(PairRows(m, d)) = 1
        /\ \E j \in DOMAIN permuted_aucs :
            /\ permuted_aucs[j].Method # m /\ permuted_aucs[j].Diagnosis = d
            /\ permuted_aucs[j].mean_auc < unpermuted_aucs[m][d]
        /\ \E l \in DOMAIN permuted_aucs :
            /\ permuted_aucs[l].Method = m /\ permuted_aucs[l].Diagnosis # d
            /\ permuted_aucs[l].mean_auc < unpermuted_aucs[m][d]
        /\ p_values[m][d] = [num |-> 1, den |-> 1]

\* C2: every p-value returned lies in (0, 1], also for an empty sample set.
C2_Formula ==
    Returned =>
        \A m \in DOMAIN p_values : \A d \in DOMAIN p_values[m] :
            /\ p_values[m][d].den > 0
            /\ p_values[m][d].num > 0
            /\ p_values[m][d].num <= p_values[m][d].den

\* A pair with no row (p = 1) beside a pair whose p-value is below 1.
C2_Witness ==
    /\ Returned
    /\ \E m \in DOMAIN p_values : \E d \in DOMAIN p_values[m] :
        PairRows(m, d) = {} /\ p_values[m][d] = [num |-> 1, den |-> 1]
    /\ \E m \in DOMAIN p_values : \E d \in DOMAIN p_values[m] :
        p_values[m][d].num < p_values[m][d].den

\* C4: if every permuted mean AUC of a pair is strictly below the true mean
\* AUC, the p-value is 1 / (n + 1); no p-value of a sample of size n is
\* smaller, and none is 0.
C4_Formula ==
    Returned =>
        \A m \in DOMAIN p_values : \A d \in DOMAIN p_values[m] :
            LET n == Cardinality(PairRows(m, d))
                p == p_values[m][d]
            IN /\ (\A i \in PairRows(m, d) :
                      permuted_aucs[i].mean_auc < unpermuted_aucs[m][d])
                  => p.num * (n + 1) = p.den
               /\ p.num * (n + 1) >= p.den
               /\ p.num > 0

\* Two rows of one pair, both below the true AUC: p = 1/3.
C4_Witness ==
    /\ Returned
    /\ \E m \in DOMAIN p_values : \E d \in DOMAIN p_values[m] :
        /\ Cardinality(PairRows(m, d)) = 2
        /\ \A i \in PairRows(m, d) : permuted_aucs[i].mean_auc < unpermuted_aucs[m][d]
        /\ p_values[m][d] = [num |-> 1, den |-> 3]

\* C5: if every permuted mean AUC of a pair is >= the true mean AUC, the
\* p-value is exactly 1.
C5_Formula ==
    Returned =>
        \A m \in DOMAIN p_values : \A d \in DOMAIN p_values[m] :
            (\A i \in PairRows(m, d) :
                permuted_aucs[i].mean_auc >= unpermuted_aucs[m][d])
            => p_values[m][d].num = p_values[m][d].den

\* Two rows of one pair, one equal to the true AUC and one above it: p = 1.
C5_Witness ==
    /\ Returned
    /\ \E m \in DOMAIN p_values : \E d \in DOMAIN p_values[m] :
        /\ \E i, j \in PairRows(m, d) :
            /\ permuted_aucs[i].mean_auc = unpermuted_aucs[m][d]
            /\ permuted_aucs[j].mean_auc > unpermuted_aucs[m][d]
        /\ p_values[m][d] = [num |-> 1, den |-> 1]

\* The dataset of the example: permuted mean AUCs 0.51 .. 0.55, true 0.50.
ExampleDataset ==
    /\ permuted_aucs =
         [i \in 1..5 |-> [Method |-> FixedMethod, Diagnosis |-> FixedDiagnosis,
                          mean_auc |-> 50 + i]]
    /\ unpermuted_aucs[FixedMethod][FixedDiagnosis] = 50

\* C3 as stated: on the example dataset permutation_test returns 1/6.
C3_Original ==
    (Returned /\ ExampleDataset) =>
        p_values[FixedMethod][FixedDiagnosis] = [num |-> 1, den |-> 6]

\* C3 (amended): on the example dataset all five permuted values are >= the
\* true mean AUC, and permutation_test returns (5 + 1) / (5 + 1) = 1.
C3_Formula ==
    (Returned /\ ExampleDataset) =>
        p_values[FixedMethod][FixedDiagnosis] = [num |-> 1, den |-> 1]

\* permutation_test has returned on the example dataset.
C3_Witness ==
    /\ Returned
    /\ ExampleDataset
    /\ DOMAIN p_values = {FixedMethod}

(***************************************************************************)
(* Claims about auc_violinplot                                             *)
(***************************************************************************)
\* C7 as stated: the p-value annotation of a (diagnosis, method) pair carries
\* the bold markup exactly when mark_significance decides 'significant' for
\* its p-value and alpha.
C7_Claim ==
    (pc = "done" /\ raised = NoException) =>
        \A k \in DOMAIN plot.annotations :
            LET a == plot.annotations[k]
                mark == mark_significance(p_values[a.method][a.diagnosis], alpha)
            IN (a.text.str1 = Bold1 /\ a.text.str2 = Bold2) <=> (mark = <<Bold1, Bold2>>)

\* C8: auc_violinplot raises ValueError exactly when methods_to_plot does not
\* have two elements, and then it has created no figure, drawn nothing, not
\* invoked permutation_test and left its arguments as they were.
C8_Formula ==
    [][(pc = "start" /\ pc' = "done") =>
        /\ (Len(methods_to_plot) # 2) <=> (raised' = ValueError)
        /\ (Len(methods_to_plot) # 2) =>
            /\ ~plot'.figure
            /\ ~plot'.tested
            /\ plot' = NothingDrawn
            /\ p_values' = EmptyDict
            /\ permuted_aucs' = permuted_aucs
            /\ unpermuted_aucs' = unpermuted_aucs]_vars

\* ValueError for three methods to plot, on a table with a row the relabelling
\* would have rewritten.
C8_Witness ==
    /\ pc = "done"
    /\ raised = ValueError
    /\ Len(methods_to_plot) = 3
    /\ \E i \in DOMAIN permuted_aucs :
        /\ permuted_aucs[i].Method \in DOMAIN new_labels
        /\ permuted_aucs[i].Method \in Range(methods_to_plot)
    /\ plot = NothingDrawn

(***************************************************************************)
(* Claims about the loaders                                                *)
(***************************************************************************)
UnpermutedYielded == results_file_iter(results_dir, methods, FALSE, TRUE)
PermutedYielded == results_file_iter(results_dir, methods, TRUE, TRUE)
UnadjustedYielded == results_file_iter(results_dir, methods, FALSE, FALSE)

\* The column of a diagnosis in a file (empty if the file has none).
DiagnosisColumn(file, d) ==
    IF \E c \in DOMAIN file.columns : file.columns[c].name = d
    THEN file.columns[CHOOSE c \in DOMAIN file.columns : file.columns[c].name = d].values
    ELSE <<>>

\* The files yielded for a method that contain a diagnosis, as positions.
FilesOf(yielded, m, d) ==
    {i \in DOMAIN yielded :
        yielded[i].method = m /\ DiagnosisColumn(yielded[i].file, d) # <<>>}

\* The sum of a column, value by value.
RECURSIVE WeightedSum(_, _)
WeightedSum(values, vs) ==
    IF vs = {} THEN 0
    ELSE LET v == CHOOSE x \in vs : TRUE
         IN v * Cardinality({i \in DOMAIN values : values[i] = v})
            + WeightedSum(values, vs \ {v})
ColumnSum(values) == WeightedSum(values, Range(values))

\* The sum and the count of all rows of a diagnosis over a set of files.
RECURSIVE RowSum(_, _, _)
RowSum(yielded, is, d) ==
    IF is = {} THEN 0
    ELSE LET i == CHOOSE x \in is : TRUE
         IN ColumnSum(DiagnosisColumn(yielded[i].file, d)) + RowSum(yielded, is \ {i}, d)
RECURSIVE RowCount(_, _, _)
RowCount(yielded, is, d) ==
    IF is = {} THEN 0
    ELSE LET i == CHOOSE x \in is : TRUE
         IN Len(DiagnosisColumn(yielded[i].file, d)) + RowCount(yielded, is \ {i}, d)

\* mean_aucs holds, for every method and every diagnosis of a file yielded
\* for it, the sum of all rows over the number of all rows.
MeanOverAllRows(mean_aucs, yielded) ==
    /\ DOMAIN mean_aucs = Range(methods)
    /\ \A m \in Range(methods) :
        /\ DOMAIN mean_aucs[m] = {d \in Diagnoses : FilesOf(yielded, m, d) # {}}
        /\ \A d \in DOMAIN mean_aucs[m] :
            LET files == FilesOf(yielded, m, d)
            IN mean_aucs[m][d].num * RowCount(yielded, files, d)
                 = RowSum(yielded, files, d) * mean_aucs[m][d].den

\* C6: the mean AUC both loaders return for a (method, diagnosis) pair is the
\* sum of all trial rows of the diagnosis over all files yielded for the
\* method, divided by the number of those rows, whatever the split into files
\* and the order of the files.
C6_Formula ==
    (pc = "done" /\ raised = NoException) =>
        /\ called = "load_test_auc_data" =>
              MeanOverAllRows(loaded.mean_aucs, UnpermutedYielded)
        /\ called = "load_test_auc_unadjusted_data" =>
              MeanOverAllRows(loaded.mean_aucs, UnadjustedYielded)

\* Two files of different row counts for one pair, where the mean returned
\* differs from the mean of the two per-file means.
C6_Witness ==
    /\ pc = "done"
    /\ raised = NoException
    /\ called = "load_test_auc_unadjusted_data"
    /\ \E m \in Range(methods), d \in Diagnoses :
        /\ d \in DOMAIN loaded.mean_aucs[m]
        /\ \E i, j \in DOMAIN UnadjustedYielded :
            LET ci == DiagnosisColumn(UnadjustedYielded[i].file, d)
                cj == DiagnosisColumn(UnadjustedYielded[j].file, d)
            IN /\ FilesOf(UnadjustedYielded, m, d) = {i, j}
               /\ Len(ci) # Len(cj)
               /\ (ColumnSum(ci) * Len(cj) + ColumnSum(cj) * Len(ci))
                     * loaded.mean_aucs[m][d].den
                  # loaded.mean_aucs[m][d].num * 2 * Len(ci) * Len(cj)

\* A file of load_test_auc_data with a row count other than the asserted one.
BadShape ==
    \/ \E i \in DOMAIN UnpermutedYielded :
          UnpermutedYielded[i].file.nrows # UnpermutedRowCount
    \/ \E i \in DOMAIN PermutedYielded :
          PermutedYielded[i].file.nrows # PermutedRowCount

PermutedRowsOf(m, d) ==
    {k \in DOMAIN loaded.permuted_aucs :
        loaded.permuted_aucs[k].Method = m /\ loaded.permuted_aucs[k].Diagnosis = d}

\* C9: load_test_auc_data ends with an assertion failure, returning nothing,
\* exactly when a file yielded has a row count other than 5 (permuted) or 150
\* (unpermuted); otherwise the permuted table holds, for each (method,
\* diagnosis) pair, as many rows as permuted files yielded for the method
\* contain the diagnosis, every row being the mean of the 5 rows of such a
\* file.
C9_Formula ==
    (pc = "done" /\ called = "load_test_auc_data") =>
        /\ BadShape <=> (raised = AssertionError)
        /\ BadShape => loaded = NothingLoaded
        /\ ~BadShape =>
            /\ raised = NoException
            /\ \A k \in DOMAIN loaded.permuted_aucs :
                /\ loaded.permuted_aucs[k].Method \in Range(methods)
                /\ loaded.permuted_aucs[k].Diagnosis \in Diagnoses
            /\ \A m \in Range(methods), d \in Diagnoses :
                /\ Cardinality(PermutedRowsOf(m, d))
                     = Cardinality(FilesOf(PermutedYielded, m, d))
                /\ \A k \in PermutedRowsOf(m, d) :
                    \E i \in FilesOf(PermutedYielded, m, d) :
                        loaded.permuted_aucs[k].mean_auc.num * PermutedRowCount
                          = ColumnSum(DiagnosisColumn(PermutedYielded[i].file, d))
                              * loaded.permuted_aucs[k].mean_auc.den

\* Two permuted files yielded for a method, one of them without a diagnosis
\* the other has: one row for that pair, two for the other diagnosis.
C9_Witness ==
    /\ pc = "done"
    /\ called = "load_test_auc_data"
    /\ raised = NoException
    /\ \E m \in Range(methods) :
        /\ Cardinality({i \in DOMAIN PermutedYielded : PermutedYielded[i].method = m}) = 2
        /\ Cardinality(PermutedRowsOf(m, "Bipolar")) = 1
        /\ Cardinality(PermutedRowsOf(m, "Depression")) = 2

====
